---- MODULE Spec2Model ----
(***************************************************************************)
(* State-machine model of src/auth.mjs: the SIWE challenge/response        *)
(* endpoints attached by attachAuth (POST /auth/nonce, POST /auth/verify,  *)
(* GET /auth/session, POST /auth/logout, app.locals.requireAuth) and the   *)
(* periodic cleanExpiredNonces timer.                                      *)
(*                                                                         *)
(* Node runs every handler to completion except where it awaits.  The only *)
(* await is the call of verifySignature in POST /auth/verify, so that      *)
(* handler is two actions (VerifyStart up to the await, VerifyFinish after *)
(* it) and every other handler is one action.                              *)
(*                                                                         *)
(* generateNonce and the session id are 16 and 32 random bytes; they are   *)
(* modelled as values that never repeat (nextNonce, nextSid).  The clock   *)
(* is read at the instants of Instants and never goes back.                *)
(***************************************************************************)
EXTENDS Integers, FiniteSets, Sequences, Bags, TLC

\* ---------------------------------------------------------------- bounds
\* POST /auth/nonce requests that issue a nonce plus POST /auth/verify
\* requests in one run
MaxRequests == 3

\* ------------------------------------------------------------- constants
SESSION_DURATION == 24 * 60 * 60 * 1000
NONCE_EXPIRY     == 5 * 60 * 1000
DefaultChainId   == 8453

\* Response bodies of the handlers, under the names the design gives the
\* error kinds.
MissingFields     == "message and signature required"
InvalidIdentity   == "Valid Ethereum address required"
MalformedMessage  == "Invalid SIWE message format"
NonceNotFound     == "Invalid or expired nonce"
NonceExpired      == "Nonce expired"
IdentityMismatch  == "Address mismatch"
InvalidSignature  == "Invalid signature"
NoSession         == "No session"
SessionExpired    == "Session expired"
AuthRequired      == "Authentication required"
Ok                == "ok"

\* ------------------------------------------------------------ value sets
None    == "none"
NoNonce == 0        \* no "Nonce: " match / no nonce
NoSid   == 0        \* no x-session-id header and no sessionId query

\* Addresses a client may send.  "0xAa" and "0xaa" are the same account in
\* two spellings, "0xBb" is another account, "0xZZ" fails the syntax test.
ValidAddresses == {"0xAa", "0xaa", "0xBb"}
\* Addresses sent to POST /auth/nonce; None is a body without an address.
Addresses      == {"0xAa", "0xZZ", None}

\* Accounts that can sign, named by the checksummed address that
\* ethers.verifyMessage recovers for them.
Keys == {"0xAa", "0xBb"}
\* Whether import('ethers') resolves when verifySignature runs.
Backends == {"ethers", "none"}

NonceIds   == 1..MaxRequests
SessionIds == 1..MaxRequests
\* The instants at which the clock is read: the start, and the last
\* millisecond of and the first one past each of the two durations.
Instants   == {0, NONCE_EXPIRY, NONCE_EXPIRY + 1, SESSION_DURATION, SESSION_DURATION + 1}

\* new Date(t).toISOString(): the calendar day and the time of day to the
\* millisecond.
DayMs == 24 * 60 * 60 * 1000
toISOString(t) == <<t \div DayMs, t % DayMs>>
\* No date in a response.
NoDate == <<>>

\* String.prototype.toLowerCase on the addresses of the model.
ToLowerCase(a) ==
    CASE a = "0xAa" -> "0xaa"
      [] a = "0xBb" -> "0xbb"
      [] OTHER      -> a

\* Mutant of IsAddress: the character class is [a-f0-9].
IsAddress_LowerOnly(a) == a # None /\ a \in ValidAddresses /\ a = ToLowerCase(a)

\* Mutant of IsAddress: only the !address test is made.
IsAddress_NotMissing(a) == a # None

\* /^0x[a-fA-F0-9]{40}$/.test(address), with the !address test before it.
IsAddress(a) == a # None /\ a \in ValidAddresses

\* The two regular-expression matches of POST /auth/verify, as their
\* results: the first address-shaped substring and the nonce after the
\* "Nonce: " label; None when the match fails.
\* chainId is the number on the "Chain ID: " line, which the handler does
\* not read: that of the issued message, or another one in a message the
\* client edited before signing it.
OtherChainId == 1
Messages == [address : ValidAddresses, nonce : NonceIds, empty : {FALSE},
             chainId : {DefaultChainId}]
            \cup {[address |-> None, nonce |-> 1, empty |-> FALSE, chainId |-> DefaultChainId],
                  [address |-> "0xAa", nonce |-> NoNonce, empty |-> FALSE, chainId |-> DefaultChainId]}
\* The first issued message with another number on its "Chain ID: " line.
EditedMessage == [address |-> "0xAa", nonce |-> 1, empty |-> FALSE, chainId |-> OtherChainId]
\* The request body without a message ("" or undefined).
EmptyMessage == [address |-> None, nonce |-> NoNonce, empty |-> TRUE, chainId |-> 0]

\* A signature blob: a signature made by a key over the submitted message,
\* or bytes that are not a signature.
Signatures == [kind : {"signed"}, signer : Keys]
              \cup {[kind |-> "garbage", signer |-> None]}
\* The request body without a signature.
EmptySignature == [kind |-> "empty", signer |-> None]

VARIABLES
    nonces,      \* the Map nonces: nonce -> [address, createdAt]
    sessions,    \* the Map sessions: sessionId -> [address, chainId, issuedAt, expiresAt]
    now,         \* Date.now()
    nextNonce,   \* next value of generateNonce()
    nextSid,     \* next value of crypto.randomBytes(32) for a session id
    issuedMsg,   \* history: nonce -> the message POST /auth/nonce returned
    minted,      \* history: nonce -> number of sessions created by requests
                 \*          presenting it whose signature the oracle accepted
    started,     \* number of POST /auth/verify requests received
    pending,     \* the verify requests waiting on the oracle (a bag)
    resp,        \* the last response sent since the clock was last read at a
                 \* new instant, with what its handler saw
    rejected,    \* history: the session ids a lookup has answered with 401
    siwe         \* one message on its way from constructSIWEMessage to the
                 \* two matches of POST /auth/verify, as text

vars == <<nonces, sessions, now, nextNonce, nextSid,
          issuedMsg, minted, started, pending, resp, rejected, siwe>>

\* ------------------------------------------------------------ Map helpers
\* Map.prototype.set
MapSet(m, k, v) == [x \in DOMAIN m \cup {k} |-> IF x = k THEN v ELSE m[x]]
\* Map.prototype.delete (a no-op on an absent key)
MapDelete(m, k) == [x \in DOMAIN m \ {k} |-> m[x]]
\* Map.prototype.has
MapHas(m, k) == k \in DOMAIN m

EmptyMap == [x \in {} |-> None]

\* ------------------------------------------------- constructSIWEMessage
\* The issued message, as the two matches POST /auth/verify takes from it:
\* the address as the client spelled it and the nonce.
constructSIWEMessage(address, nonce) ==
    [address |-> address, nonce |-> nonce, empty |-> FALSE, chainId |-> DefaultChainId]

\* ------------------------------------------------- the message as text
\* A text is a sequence of lexemes: the label "Nonce: ", a run of the
\* characters a-f0-9, an address (0x and 40 hex digits), or other text in
\* which neither regular expression finds anything.
NonceLabel == "Nonce: "
HexRuns    == {"a1", "b2", "c3", "beef", "1", "8453"}
\* The values of generateNonce() in the texts.
NonceTexts == {"a1", "b2", "c3"}
\* options.domain
Domains    == {<<"localhost">>, <<"0xBb", ".example.org">>}
\* options.statement; <<>> is the unset option.
Statements == {<<>>, <<"Sign in to the kit">>, <<"Nonce: ", "beef">>,
               <<"Pay to ", "0xBb">>}

\* What ([a-f0-9]+) captures at the start of a lexeme: a run whole, the 0
\* of an address (the x ends the run), nothing of other text.
HexHead(x) ==
    CASE x \in HexRuns        -> x
      [] x \in ValidAddresses -> "0"
      [] OTHER                -> None

\* The template literal of constructSIWEMessage, lexeme by lexeme.
constructSIWEText(domain, address, statement, uri, version, chainId, nonce, issuedAt) ==
    domain \o <<" wants you to sign in with your Ethereum account:", "\n",
                address, "\n", "\n">>
           \o (IF statement = <<>> THEN <<"Sign in to Sovereign Builder Kit">> ELSE statement)
           \o <<"\n", "\n", "URI: ">> \o uri
           \o <<"\n", "Version: ", IF version = None THEN "1" ELSE version,
                "\n", "Chain ID: ", IF chainId = None THEN "1" ELSE chainId,
                "\n", NonceLabel, nonce,
                "\n", "Issued At: ", issuedAt>>

\* The smallest member of a non-empty set of positions.
Leftmost(S) == CHOOSE i \in S : \A j \in S : i <= j

\* message.match(/Nonce: ([a-f0-9]+)/)[1]: the capture of the leftmost
\* match; None when nothing matches.
MatchNonce(text) ==
    LET hits == {i \in 1..(Len(text) - 1) :
                    text[i] = NonceLabel /\ HexHead(text[i + 1]) # None}
    IN  IF hits = {} THEN None ELSE HexHead(text[Leftmost(hits) + 1])

\* message.match(/0x[a-fA-F0-9]{40}/)[0]: the leftmost match; None when
\* nothing matches.
MatchAddress(text) ==
    LET hits == {i \in 1..Len(text) : text[i] \in ValidAddresses}
    IN  IF hits = {} THEN None ELSE text[Leftmost(hits)]

\* No message is followed as text.
NoSiwe ==
    [phase |-> "none", domain |-> <<>>, address |-> None, statement |-> <<>>,
     nonce |-> None, text |-> <<>>, nonceMatch |-> None, addressMatch |-> None]

\* The key of the account an address names.
KeyOf(a) == IF a = "0xaa" THEN "0xAa" ELSE a

\* Request bodies of POST /auth/verify: a message and a signature, or one
\* of the two left out.  The message that names 0xAa as issued comes with
\* every signature; a message in another spelling or for another account
\* comes signed by that account.
Bodies == {b \in [message : Messages, signature : Signatures] :
               \/ b.message.address \in {"0xAa", None}
               \/ b.signature.signer = KeyOf(b.message.address)}
          \cup {[message |-> EmptyMessage, signature |-> [kind |-> "garbage", signer |-> None]],
                [message |-> constructSIWEMessage("0xAa", 1), signature |-> EmptySignature],
                [message |-> EditedMessage, signature |-> [kind |-> "signed", signer |-> "0xAa"]]}

\* The signature field of a response whose handler returned before the
\* call of verifySignature, which is the only reader of the signature.
UnreadSignature == [kind |-> "unread", signer |-> None]

\* A response.  op, status, error, key (nonce or session id), sessionId,
\* address, chainId and expiresAt are what the handler sent; the other
\* fields record the request and what the handler saw:
\*   message            the message of the verify request
\*   signature          its signature, when verifySignature was called
\*   found, age         line 145 found the nonce; now - createdAt at that time
\*   issued             the nonce had been issued
\*   consumed           a request with an accepted signature had made a
\*                      session from the nonce
\*   bound              the address stored with the nonce at line 145
\*   consulted          verifySignature was called
\*   oracle             what the oracle did (OracleOutcome)
\*   present, fresh     after the await the nonce was still stored; still young
\*   stored, late       the session id was stored; now > its expiresAt
\*                      (for a logout too, which does not look at either)
\*   atExpiry           the session id was stored and now = its expiresAt
NoResp ==
    [op |-> None, status |-> 0, error |-> None, key |-> 0, sessionId |-> NoSid,
     address |-> None, chainId |-> 0, expiresAt |-> NoDate,
     message |-> EmptyMessage, signature |-> EmptySignature,
     found |-> FALSE, age |-> 0, issued |-> FALSE, consumed |-> FALSE,
     bound |-> None, consulted |-> FALSE, oracle |-> None,
     present |-> FALSE, fresh |-> FALSE, stored |-> FALSE, late |-> FALSE,
     atExpiry |-> FALSE]

\* ------------------------------------------------------------------ Init
ServerInit ==
    /\ nonces = EmptyMap
    /\ sessions = EmptyMap
    /\ now = 0
    /\ nextNonce = 1
    /\ nextSid = 1
    /\ issuedMsg = EmptyMap
    /\ minted = [n \in NonceIds |-> 0]
    /\ started = 0
    /\ pending = EmptyBag
    /\ resp = NoResp
    /\ rejected = {}

Init == ServerInit /\ siwe = NoSiwe

\* ------------------------------------------------------- the clock
Tick(t) ==
    /\ t > now
    /\ now' = t
    /\ resp' = NoResp
    /\ UNCHANGED <<siwe, rejected, nonces, sessions, nextNonce, nextSid, issuedMsg,
                   minted, started, pending>>

\* ------------------------------------------------- cleanExpiredNonces
\* Mutant of SweepTargets: the age is taken the wrong way round.
SweepTargets_Reversed(m, t) == {n \in DOMAIN m : m[n].createdAt - t > NONCE_EXPIRY}

\* Mutant of SweepTargets: the comparison is >= instead of >.
SweepTargets_AtTTL(m, t) == {n \in DOMAIN m : t - m[n].createdAt >= NONCE_EXPIRY}

\* The entries the sweep deletes at time t.
SweepTargets(m, t) == {n \in DOMAIN m : t - m[n].createdAt > NONCE_EXPIRY}

cleanExpiredNonces ==
    /\ nonces' = [n \in DOMAIN nonces \ SweepTargets(nonces, now) |-> nonces[n]]
    /\ UNCHANGED <<siwe, rejected, sessions, now, nextNonce, nextSid,
                   issuedMsg, minted, started, pending, resp>>

\* ---------------------------------------------------- POST /auth/nonce
RequestNonce(address) ==
    /\ IF ~IsAddress(address)
       THEN /\ resp' = [NoResp EXCEPT !.op = "nonce", !.status = 400,
                                      !.error = InvalidIdentity,
                                      !.address = address]
            /\ UNCHANGED <<nonces, nextNonce, issuedMsg>>
       ELSE /\ (nextNonce - 1) + started < MaxRequests
            /\ nonces' = MapSet(nonces, nextNonce,
                                [address |-> ToLowerCase(address), createdAt |-> now])
            /\ issuedMsg' = MapSet(issuedMsg, nextNonce,
                                   constructSIWEMessage(address, nextNonce))
            /\ nextNonce' = nextNonce + 1
            /\ resp' = [NoResp EXCEPT !.op = "nonce", !.status = 200, !.error = Ok,
                                      !.key = nextNonce, !.address = address,
                                      !.message = constructSIWEMessage(address, nextNonce)]
    /\ UNCHANGED <<siwe, rejected, sessions, now, nextSid, minted, started, pending>>

\* ----------------------------------------------------- verifySignature
\* ethers.verifyMessage(message, signature): the recovered address.
Recovered(signature) == signature.signer

\* What the oracle did: import('ethers') failed, verifyMessage threw, or it
\* returned an address that matches or does not match expectedAddress.
OracleOutcome(backend, signature, expectedAddress) ==
    CASE backend = "none" -> "unavailable"
      [] signature.kind = "garbage" -> "threw"
      [] ToLowerCase(Recovered(signature)) = ToLowerCase(expectedAddress) -> "accepted"
      [] OTHER -> "rejected"

\* The inner catch covers both the import and the verifyMessage call and
\* returns true; the comparison is reached only when both succeeded.
verifySignature(backend, signature, expectedAddress) ==
    CASE OracleOutcome(backend, signature, expectedAddress) = "unavailable" -> TRUE
      [] OracleOutcome(backend, signature, expectedAddress) = "threw"       -> TRUE
      [] OTHER -> ToLowerCase(Recovered(signature)) = ToLowerCase(expectedAddress)

\* --------------------------------------------------- POST /auth/verify
\* Mutant of Expired: the comparison is >= instead of >.
Expired_AtTTL(data, t) == t - data.createdAt >= NONCE_EXPIRY

\* Date.now() - nonceData.createdAt > NONCE_EXPIRY
Expired(data, t) == t - data.createdAt > NONCE_EXPIRY

\* Mutant of AddressMismatch: the comparison is left out.
AddressMismatch_Never(data, address) == FALSE

\* Mutant of AddressMismatch: the claimed address is compared as spelled.
AddressMismatch_CaseSensitive(data, address) == data.address # address

\* nonceData.address !== address.toLowerCase()
AddressMismatch(data, address) == data.address # ToLowerCase(address)

\* Mutant of NonceCheck: the identity is compared before the age.
NonceCheck_MismatchFirst(m, nonce, address, t) ==
    IF ~MapHas(m, nonce) THEN NonceNotFound
    ELSE IF AddressMismatch(m[nonce], address) THEN IdentityMismatch
    ELSE IF Expired(m[nonce], t) THEN NonceExpired
    ELSE Ok

\* The checks of the stored nonce, in the order the handler makes them: the
\* error of the first one that fails, or Ok.
NonceCheck(m, nonce, address, t) ==
    IF ~MapHas(m, nonce) THEN NonceNotFound
    ELSE IF Expired(m[nonce], t) THEN NonceExpired
    ELSE IF AddressMismatch(m[nonce], address) THEN IdentityMismatch
    ELSE Ok

\* Mutant of Malformed: only the nonce match is tested.
Malformed_NonceOnly(message) == message.nonce = NoNonce

\* !nonceMatch || !addressMatch
Malformed(message) == message.nonce = NoNonce \/ message.address = None

\* Mutant of NewSession: the session lasts as long as a nonce.
NewSession_NonceTTL(address, t) ==
    [address   |-> ToLowerCase(address),
     chainId   |-> DefaultChainId,
     issuedAt  |-> t,
     expiresAt |-> t + NONCE_EXPIRY]

\* The record sessions.set stores for a session created at time t.
NewSession(address, t) ==
    [address   |-> ToLowerCase(address),
     chainId   |-> DefaultChainId,
     issuedAt  |-> t,
     expiresAt |-> t + SESSION_DURATION]

\* Mutant of CreateSession: one session per identity, the new one replaces
\* the sessions the address already has.
CreateSession_Single(m, sessionId, address, t) ==
    LET kept == {s \in DOMAIN m : m[s].address # ToLowerCase(address)}
    IN  MapSet([s \in kept |-> m[s]], sessionId, NewSession(address, t))

\* sessions.set(sessionId, {...})
CreateSession(m, sessionId, address, t) ==
    MapSet(m, sessionId, NewSession(address, t))

\* Mutant of NewSessionId: the lowest id no stored session has is used
\* again.
NewSessionId_Reuse(next, m) ==
    CHOOSE s \in 1..next : s \notin DOMAIN m /\ \A o \in 1..(s - 1) : o \in DOMAIN m

\* crypto.randomBytes(32).toString('hex'): an id no session has had.
NewSessionId(next, m) == next

\* Mutant of EvictNonce: the whole store is cleared.
EvictNonce_Clear(m, nonce) == EmptyMap

\* The delete of the expiry branch: nonces.delete(nonce)
EvictNonce(m, nonce) == MapDelete(m, nonce)

\* Mutant of ConsumeNonce: the nonce is left in the store.
ConsumeNonce_Skip(m, nonce) == m

\* Consume nonce (one-time use): nonces.delete(nonce)
ConsumeNonce(m, nonce) == MapDelete(m, nonce)

\* The handler up to `await verifySignature(...)`.  A request that reaches
\* the await joins `pending` with its body and, as history, what line 145
\* saw when it arrived.
VerifyStart(message, signature) ==
    /\ (nextNonce - 1) + started < MaxRequests
    /\ started' = started + 1
    /\ LET nonce   == message.nonce
           address == message.address
           found   == MapHas(nonces, nonce)
           check   == NonceCheck(nonces, nonce, address, now)
           seen    == [NoResp EXCEPT
                         !.op = "verify", !.key = nonce,
                         !.message = message,
                         !.signature = IF signature.kind = "empty"
                                       THEN EmptySignature ELSE UnreadSignature,
                         !.found = found,
                         !.age = IF found THEN now - nonces[nonce].createdAt ELSE 0,
                         !.issued = nonce # NoNonce /\ nonce < nextNonce,
                         !.consumed = nonce # NoNonce /\ minted[nonce] > 0,
                         !.bound = IF found THEN nonces[nonce].address ELSE None]
           Reject(status, error) ==
               /\ resp' = [seen EXCEPT !.status = status, !.error = error]
               /\ UNCHANGED pending
       IN
       IF message.empty \/ signature.kind = "empty"
       THEN Reject(400, MissingFields) /\ UNCHANGED nonces
       ELSE IF Malformed(message)
       THEN Reject(400, MalformedMessage) /\ UNCHANGED nonces
       ELSE IF check = NonceExpired
       THEN Reject(401, check) /\ nonces' = EvictNonce(nonces, nonce)
       ELSE IF check # Ok
       THEN Reject(401, check) /\ UNCHANGED nonces
       ELSE /\ pending' = pending (+) SetToBag({[message |-> message,
                                                 signature |-> signature,
                                                 consumed |-> seen.consumed,
                                                 age |-> seen.age,
                                                 bound |-> seen.bound]})
            /\ UNCHANGED <<nonces, resp>>
    /\ UNCHANGED <<siwe, rejected, sessions, now, nextNonce, nextSid, issuedMsg, minted>>

\* The handler from the return of verifySignature to its response, for the
\* pending request r.
VerifyFinish(r, backend) ==
    /\ BagIn(r, pending)
    /\ pending' = pending (-) SetToBag({r})
    /\ LET nonce   == r.message.nonce
           address == r.message.address
           valid   == verifySignature(backend, r.signature, address)
           sessionId == NewSessionId(nextSid, sessions)
           seen    == [NoResp EXCEPT
                         !.op = "verify", !.key = nonce,
                         !.message = r.message, !.signature = r.signature,
                         !.found = TRUE,
                         !.age = r.age,
                         !.issued = TRUE,
                         !.consumed = r.consumed,
                         !.bound = r.bound,
                         !.consulted = TRUE,
                         !.oracle = OracleOutcome(backend, r.signature, address),
                         !.present = MapHas(nonces, nonce),
                         !.fresh = MapHas(nonces, nonce)
                                   /\ now - nonces[nonce].createdAt <= NONCE_EXPIRY]
       IN
       IF ~valid
       THEN /\ resp' = [seen EXCEPT !.status = 401, !.error = InvalidSignature]
            /\ UNCHANGED <<nonces, sessions, nextSid, minted>>
       ELSE /\ nonces' = ConsumeNonce(nonces, nonce)
            /\ sessions' = CreateSession(sessions, sessionId, address, now)
            /\ nextSid' = nextSid + 1
            /\ minted' = [minted EXCEPT ![nonce] =
                            IF seen.oracle = "accepted" THEN @ + 1 ELSE @]
            /\ resp' = [seen EXCEPT !.status = 200, !.error = Ok,
                                    !.sessionId = sessionId,
                                    !.address = ToLowerCase(address),
                                    !.expiresAt = toISOString(now + SESSION_DURATION)]
    /\ UNCHANGED <<siwe, rejected, now, nextNonce, issuedMsg, started>>

\* ------------------------------------------------------ session lookup
\* Mutant of SessionExpiredAt: the comparison is >= instead of >.
SessionExpiredAt_AtExpiry(session, t) == t >= session.expiresAt

\* Date.now() > session.expiresAt
SessionExpiredAt(session, t) == t > session.expiresAt

\* Mutant of LookupSession: a live session's expiry slides on every read.
LookupSession_Sliding(m, sessionId, t) ==
    IF ~MapHas(m, sessionId) \/ SessionExpiredAt(m[sessionId], t)
    THEN MapDelete(m, sessionId)
    ELSE MapSet(m, sessionId, [m[sessionId] EXCEPT !.expiresAt = t + SESSION_DURATION])

\* Mutant of LookupSession: every id looked up is deleted.
LookupSession_Evict(m, sessionId, t) == MapDelete(m, sessionId)

\* What the lookup of GET /auth/session and of requireAuth does to the
\* store at time t: an absent or expired id is deleted, a live session is
\* only read.
LookupSession(m, sessionId, t) ==
    IF ~MapHas(m, sessionId) \/ SessionExpiredAt(m[sessionId], t)
    THEN MapDelete(m, sessionId)
    ELSE m

\* ---------------------------------------------------- GET /auth/session
GetSession(sessionId) ==
    /\ LET stored == MapHas(sessions, sessionId)
           seen   == [NoResp EXCEPT
                        !.op = "session", !.key = sessionId, !.stored = stored,
                        !.late = stored /\ now > sessions[sessionId].expiresAt,
                        !.atExpiry = stored /\ now = sessions[sessionId].expiresAt]
       IN
       IF sessionId = NoSid
       THEN /\ resp' = [seen EXCEPT !.status = 401, !.error = NoSession]
            /\ UNCHANGED <<sessions, rejected>>
       ELSE IF ~MapHas(sessions, sessionId) \/ SessionExpiredAt(sessions[sessionId], now)
       THEN /\ sessions' = LookupSession(sessions, sessionId, now)
            /\ resp' = [seen EXCEPT !.status = 401, !.error = SessionExpired]
            /\ rejected' = rejected \cup {sessionId}
       ELSE /\ sessions' = LookupSession(sessions, sessionId, now)
            /\ UNCHANGED rejected
            /\ resp' = [seen EXCEPT !.status = 200, !.error = Ok,
                          !.address = sessions[sessionId].address,
                          !.chainId = sessions[sessionId].chainId,
                          !.expiresAt = toISOString(sessions[sessionId].expiresAt)]
    /\ UNCHANGED <<siwe, nonces, now, nextNonce, nextSid, issuedMsg,
                   minted, started, pending>>

\* ---------------------------------------------------- POST /auth/logout
\* Mutant of EndSession: the session is left in the store.
EndSession_Keep(m, sessionId) == m

\* if (sessionId) sessions.delete(sessionId)
EndSession(m, sessionId) == IF sessionId # NoSid THEN MapDelete(m, sessionId) ELSE m

Logout(sessionId) ==
    /\ sessions' = EndSession(sessions, sessionId)
    /\ resp' = [NoResp EXCEPT !.op = "logout", !.status = 200, !.error = Ok,
                              !.key = sessionId,
                              !.stored = MapHas(sessions, sessionId),
                              !.late = MapHas(sessions, sessionId)
                                       /\ now > sessions[sessionId].expiresAt]
    /\ UNCHANGED <<siwe, rejected, nonces, now, nextNonce, nextSid, issuedMsg,
                   minted, started, pending>>

\* ------------------------------------------------ app.locals.requireAuth
requireAuth(sessionId) ==
    /\ LET stored == MapHas(sessions, sessionId)
           seen   == [NoResp EXCEPT
                        !.op = "requireAuth", !.key = sessionId, !.stored = stored,
                        !.late = stored /\ now > sessions[sessionId].expiresAt,
                        !.atExpiry = stored /\ now = sessions[sessionId].expiresAt]
       IN
       IF sessionId = NoSid
       THEN /\ resp' = [seen EXCEPT !.status = 401, !.error = AuthRequired]
            /\ UNCHANGED <<sessions, rejected>>
       ELSE IF ~MapHas(sessions, sessionId) \/ SessionExpiredAt(sessions[sessionId], now)
       THEN /\ sessions' = LookupSession(sessions, sessionId, now)
            /\ resp' = [seen EXCEPT !.status = 401, !.error = SessionExpired]
            /\ rejected' = rejected \cup {sessionId}
       ELSE /\ sessions' = LookupSession(sessions, sessionId, now)
            /\ UNCHANGED rejected
            /\ resp' = [seen EXCEPT !.status = 200, !.error = Ok,
                          !.address = sessions[sessionId].address,
                          !.chainId = sessions[sessionId].chainId]
    /\ UNCHANGED <<siwe, nonces, now, nextNonce, nextSid, issuedMsg,
                   minted, started, pending>>

\* ------------------------------------------------------------------ Next
\* Session ids a client sends: none, or one that was handed out (a client
\* cannot guess the 32 random bytes of an id not handed out yet).
KnownSids == {s \in SessionIds \cup {NoSid} : s < nextSid}

\* Request bodies a client sends: the nonce in the message, if any, is one
\* that was issued or the next one, which has not been issued.
KnownBodies == {b \in Bodies : b.message.nonce <= nextNonce}

Next ==
    \/ \E t \in Instants : Tick(t)
    \/ cleanExpiredNonces
    \/ \E a \in Addresses : RequestNonce(a)
    \/ \E b \in KnownBodies : VerifyStart(b.message, b.signature)
    \/ \E r \in BagToSet(pending), b \in Backends : VerifyFinish(r, b)
    \/ \E s \in KnownSids : GetSession(s)
    \/ \E s \in KnownSids : Logout(s)
    \/ \E s \in KnownSids : requireAuth(s)

Spec == Init /\ [][Next]_vars

\* setInterval(cleanExpiredNonces, 60_000): the sweep keeps being run, and
\* the clock keeps advancing through the instants at which it is read.
\* Requests are the clients' to send or not.
FairSpec ==
    /\ Spec
    /\ WF_vars(cleanExpiredNonces)
    /\ WF_vars(\E t \in Instants : Tick(t))

\* ------------------------------------- the message from builder to parser
\* Any configured domain and statement, any address POST /auth/nonce lets
\* through and any nonce.
ParseInit ==
    /\ ServerInit
    /\ siwe \in [phase : {"input"}, domain : Domains, address : ValidAddresses,
                 statement : Statements, nonce : NonceTexts, text : {<<>>},
                 nonceMatch : {None}, addressMatch : {None}]

\* POST /auth/nonce builds the message (lines 107-116).
BuildMessage ==
    /\ siwe.phase = "input"
    /\ siwe' = [siwe EXCEPT
                  !.phase = "built",
                  !.text = constructSIWEText(siwe.domain, siwe.address, siwe.statement,
                                             <<"http://">> \o siwe.domain, "1", "8453",
                                             siwe.nonce, "1970-01-01T00:00:00.000Z")]
    /\ UNCHANGED <<nonces, sessions, now, nextNonce, nextSid,
                   issuedMsg, minted, started, pending, resp, rejected>>

\* POST /auth/verify takes the nonce and the address from the message
\* (lines 134-135).
ParseMessage ==
    /\ siwe.phase = "built"
    /\ siwe' = [siwe EXCEPT !.phase = "parsed",
                            !.nonceMatch = MatchNonce(siwe.text),
                            !.addressMatch = MatchAddress(siwe.text)]
    /\ UNCHANGED <<nonces, sessions, now, nextNonce, nextSid,
                   issuedMsg, minted, started, pending, resp, rejected>>

ParseNext == BuildMessage \/ ParseMessage

ParseSpec == ParseInit /\ [][ParseNext]_vars

\* ================================================================ claims

\* C25: the chain id of a created session is the one in the message -- a
\* POST /auth/verify that created a session stored in it the chain id on
\* the "Chain ID: " line of the message, for every message whose
\* signature the oracle accepted.
C25_MessageChainId ==
    (/\ resp.op = "verify" /\ resp.status = 200
     /\ resp.oracle = "accepted"
     /\ MapHas(sessions, resp.sessionId)) =>
        sessions[resp.sessionId].chainId = resp.message.chainId

\* C22: round trip of the challenge message -- whatever the domain, the
\* address, the statement and the nonce given to constructSIWEMessage, the
\* two matches POST /auth/verify takes from the text it built are that
\* nonce and that address.
C22_RoundTrip ==
    siwe.phase = "parsed" =>
        /\ siwe.nonceMatch = siwe.nonce
        /\ siwe.addressMatch = siwe.address

\* The last response is that of a POST /auth/verify whose body had both
\* fields and whose message gave both matches.
VerifyAnswered ==
    /\ resp.op = "verify"
    /\ ~resp.message.empty /\ resp.signature.kind # "empty"
    /\ resp.message.nonce # NoNonce /\ resp.message.address # None

\* Two spellings of one account.
SameIdentity(a, b) == a = b \/ {a, b} = {"0xAa", "0xaa"}

\* C1: single consumption under concurrency -- in every reachable state at
\* most one session was created from any one nonce by requests carrying a
\* valid signature, however the verify requests presenting it interleave
\* at the oracle await.
C1_SingleConsumption ==
    \A n \in NonceIds : minted[n] <= 1

\* C2: fail-closed oracle -- when the oracle threw or no backend could be
\* loaded the request is answered InvalidSignature without a session, and a
\* session is created only after the oracle accepted the signature.
C2_FailClosed ==
    (VerifyAnswered /\ resp.consulted) =>
        /\ (resp.oracle \in {"threw", "unavailable"} =>
                resp.error = InvalidSignature /\ resp.sessionId = NoSid)
        /\ (resp.sessionId # NoSid => resp.oracle = "accepted")

\* C3: no replay -- a verify request that arrives presenting a nonce from
\* which a session was already made, that was never issued, or that was
\* issued and has since been deleted (by a successful verify, by the sweep
\* or by the expiry branch), is answered NonceNotFound and creates no
\* session.
C3_NoReplay ==
    (VerifyAnswered /\ (resp.consumed \/ ~resp.issued \/ ~resp.found)) =>
        /\ resp.status = 401
        /\ resp.error = NonceNotFound
        /\ resp.sessionId = NoSid

\* C3 witness: a request replaying a nonce that a session was made from has
\* been answered NonceNotFound.
C3_Witness ==
    /\ VerifyAnswered
    /\ resp.consumed
    /\ resp.error = NonceNotFound

\* C4: one attempt per nonce -- after any verify request that found its
\* nonce in the store, whatever its answer, the nonce is no longer stored.
C4_OneAttempt ==
    (VerifyAnswered /\ resp.found) => ~MapHas(nonces, resp.key)

\* C5: no check/use gap -- a verify request with a valid signature whose
\* nonce was deleted or passed its TTL while it waited on the oracle is
\* answered NonceNotFound or NonceExpired and creates no session.
C5_Revalidate ==
    (VerifyAnswered /\ resp.consulted /\ resp.oracle = "accepted" /\ ~resp.fresh) =>
        /\ resp.sessionId = NoSid
        /\ resp.error \in {NonceNotFound, NonceExpired}

\* C6: expiry boundary -- a verify request that finds its nonce with
\* now - createdAt <= NONCE_EXPIRY is not answered NonceExpired; one that
\* finds it with now - createdAt > NONCE_EXPIRY is answered NonceExpired,
\* creates no session and leaves the nonce deleted.
C6_ExpiryBoundary ==
    (VerifyAnswered /\ resp.found) =>
        /\ (resp.age <= NONCE_EXPIRY => resp.error # NonceExpired)
        /\ (resp.age > NONCE_EXPIRY =>
                /\ resp.error = NonceExpired
                /\ resp.sessionId = NoSid
                /\ ~MapHas(nonces, resp.key))

\* C6 witness: a nonce one millisecond past its TTL has been rejected as
\* expired.
C6_Witness ==
    /\ VerifyAnswered
    /\ resp.found
    /\ resp.age = NONCE_EXPIRY + 1
    /\ resp.error = NonceExpired

\* C7: identity binding -- a verify request that finds its nonce within
\* the TTL is answered IdentityMismatch exactly when the address in its
\* message and the address the nonce was issued for are different
\* accounts (two spellings of one account are the same), and a request
\* claiming a different account never creates a session.
C7_IdentityBinding ==
    (VerifyAnswered /\ resp.issued) =>
        LET A == issuedMsg[resp.key].address
            B == resp.message.address
        IN /\ (resp.found /\ resp.age <= NONCE_EXPIRY =>
                   (resp.error = IdentityMismatch <=> ~SameIdentity(A, B)))
           /\ (~SameIdentity(A, B) => resp.sessionId = NoSid /\ resp.status = 401)

\* C7 witness: a live nonce issued for 0xAa was presented in a message
\* claiming 0xBb and the request was answered IdentityMismatch.
C7_Witness ==
    /\ VerifyAnswered
    /\ resp.found /\ resp.age <= NONCE_EXPIRY
    /\ issuedMsg[resp.key].address = "0xAa"
    /\ resp.message.address = "0xBb"
    /\ resp.error = IdentityMismatch

\* C8: wrong signer -- a verify request that submits the issued message
\* unmodified, while its nonce is live, with a signature made by another
\* account's key never creates a session and is answered IdentityMismatch
\* or InvalidSignature.
C8_WrongSigner ==
    (/\ VerifyAnswered
     /\ resp.found /\ resp.age <= NONCE_EXPIRY
     /\ resp.message = issuedMsg[resp.key]
     /\ resp.signature.kind = "signed"
     /\ ~SameIdentity(resp.signature.signer, resp.message.address)) =>
        /\ resp.sessionId = NoSid
        /\ resp.error \in {IdentityMismatch, InvalidSignature}

\* C9 (as claimed): verification comes first -- an answer that reports a
\* nonce error (NonceNotFound, NonceExpired, IdentityMismatch) is given
\* only after the signature oracle has been consulted.
C9_OracleFirst ==
    (VerifyAnswered /\ resp.error \in {NonceNotFound, NonceExpired, IdentityMismatch})
        => resp.consulted

\* C9 (amended): the nonce is checked first -- the handler looks the nonce
\* up, then tests its age (deleting it when too old), then its bound
\* identity, and answers with the first of NonceNotFound, NonceExpired,
\* IdentityMismatch that applies; only a request that passed all three
\* consults the oracle, and only such a request is answered
\* InvalidSignature or gets its nonce deleted and a session created.
C9_NonceCheckFirst ==
    VerifyAnswered =>
        LET mismatch == resp.issued /\ ~SameIdentity(issuedMsg[resp.key].address,
                                                     resp.message.address)
            old      == resp.age > NONCE_EXPIRY
        IN /\ (~resp.found => resp.error = NonceNotFound)
           /\ (resp.found /\ old => resp.error = NonceExpired)
           /\ (resp.found /\ ~old /\ mismatch => resp.error = IdentityMismatch)
           /\ (resp.consulted <=> resp.found /\ ~old /\ ~mismatch)
           /\ (resp.consulted <=> resp.error \in {InvalidSignature, Ok})
           /\ (resp.error = Ok =>
                  /\ ~MapHas(nonces, resp.key)
                  /\ MapHas(sessions, resp.sessionId))

\* C9 witness: a request presenting an expired nonce in a message that
\* claims another account was answered NonceExpired without the oracle.
C9_Witness ==
    /\ VerifyAnswered
    /\ resp.found /\ resp.age > NONCE_EXPIRY
    /\ ~SameIdentity(issuedMsg[resp.key].address, resp.message.address)
    /\ resp.error = NonceExpired
    /\ ~resp.consulted

\* The two handlers that look a session up.
Lookups == {"session", "requireAuth"}

\* C10: session expiry on lookup -- when a lookup has found a stored
\* session past its expiresAt (answering SessionExpired and deleting it),
\* the next lookup of the same session id is answered NoSession.
C10_ExpiredThenNoSession ==
    [][(/\ resp.op \in Lookups /\ resp.late /\ resp.error = SessionExpired
        /\ resp'.op \in Lookups /\ resp'.key = resp.key
        /\ resp' # resp)
       => resp'.error = NoSession]_vars

\* C11: revocation is effective -- when POST /auth/logout has removed a
\* stored, unexpired session, the next lookup (GET /auth/session or
\* requireAuth) of the same id is answered NoSession and does not return
\* the identity.
C11_RevokedThenNoSession ==
    [][(/\ resp.op = "logout" /\ resp.stored /\ ~resp.late
        /\ resp'.op \in Lookups /\ resp'.key = resp.key)
       => (resp'.error = NoSession /\ resp'.address = None)]_vars

\* C12: session duration -- every stored session has
\* expiresAt = issuedAt + SESSION_DURATION, and the expiresAt in the
\* response of the POST /auth/verify that created a session is the date of
\* the stored expiresAt.
C12_SessionDuration ==
    /\ \A s \in DOMAIN sessions :
           sessions[s].expiresAt = sessions[s].issuedAt + SESSION_DURATION
    /\ (resp.op = "verify" /\ resp.status = 200) =>
           /\ MapHas(sessions, resp.sessionId)
           /\ resp.expiresAt = toISOString(sessions[resp.sessionId].expiresAt)

\* C12 witness: the last response created a session five minutes after
\* the start, which is stored.
C12_Witness ==
    /\ resp.op = "verify" /\ resp.status = 200
    /\ MapHas(sessions, resp.sessionId)
    /\ sessions[resp.sessionId].issuedAt = NONCE_EXPIRY

\* C13 (as claimed): a session is valid iff now < expiresAt -- a lookup
\* that finds the session id stored succeeds exactly when the clock is
\* before expiresAt; at now = expiresAt or later it is rejected.
C13_ValidBeforeExpiry ==
    (resp.op \in Lookups /\ resp.stored) =>
        (resp.status = 200 <=> ~resp.late /\ ~resp.atExpiry)

\* C13 (amended): a session is valid iff now <= expiresAt -- a lookup that
\* finds the session id stored succeeds exactly when the clock is not past
\* expiresAt (the instant now = expiresAt included); past it the lookup is
\* answered SessionExpired and the session is deleted.
C13_ValidUntilExpiry ==
    (resp.op \in Lookups /\ resp.stored) =>
        /\ (resp.status = 200 <=> ~resp.late)
        /\ (resp.late => resp.error = SessionExpired /\ ~MapHas(sessions, resp.key))
        /\ (~resp.late => MapHas(sessions, resp.key))

\* C13 witness: a lookup made at exactly now = expiresAt has succeeded.
C13_Witness ==
    /\ resp.op \in Lookups /\ resp.stored
    /\ resp.atExpiry
    /\ resp.status = 200

\* C14: no sliding expiry -- a successful GET /auth/session or requireAuth
\* leaves the session store and the nonce store as they were and gives the
\* address and chainId of the stored record; GET /auth/session also gives
\* the date of the expiresAt set at creation (issuedAt + SESSION_DURATION).
C14_NoSlidingExpiry ==
    [][\A s \in {resp'.key} \cap SessionIds :
          (/\ resp'.op \in Lookups /\ resp'.status = 200
           /\ (GetSession(s) \/ requireAuth(s))) =>
              /\ sessions' = sessions
              /\ nonces' = nonces
              /\ resp'.address = sessions[s].address
              /\ resp'.chainId = sessions[s].chainId
              /\ (resp'.op = "session" =>
                     resp'.expiresAt =
                        toISOString(sessions[s].issuedAt + SESSION_DURATION))]_vars

\* C14 witness: a session has been read by GET /auth/session at a later
\* instant than its creation and is still stored with the expiresAt that
\* was returned.
C14_Witness ==
    /\ resp.op = "session" /\ resp.status = 200
    /\ MapHas(sessions, resp.key)
    /\ resp.expiresAt = toISOString(sessions[resp.key].expiresAt)
    /\ sessions[resp.key].issuedAt = 0
    /\ resp.atExpiry

\* C15: logout is idempotent and always succeeds -- POST /auth/logout for
\* any session id (live, expired but still stored, already removed, or
\* none) answers ok, leaves the id absent from the session store, changes
\* no other session and no nonce; a second logout of the same id answers
\* the same and changes nothing.
C15_LogoutIdempotent ==
    [][\A s \in {resp'.key} :
          (resp'.op = "logout" /\ Logout(s)) =>
              /\ resp'.status = 200 /\ resp'.error = Ok
              /\ ~MapHas(sessions', s)
              /\ DOMAIN sessions' = DOMAIN sessions \ {s}
              /\ \A o \in DOMAIN sessions' : sessions'[o] = sessions[o]
              /\ nonces' = nonces
              /\ (resp.op = "logout" /\ resp.key = s =>
                     /\ sessions' = sessions
                     /\ resp'.status = resp.status /\ resp'.error = resp.error)]_vars

\* C15 witness: the last response is the ok of a logout for a session id
\* that had been handed out and was no longer stored.
C15_Witness ==
    /\ resp.op = "logout" /\ resp.status = 200
    /\ resp.key # NoSid /\ resp.key < nextSid
    /\ ~resp.stored

\* C16: session sweep -- with the periodic sweep scheduled fairly, every
\* stored session whose expiresAt has passed is eventually removed from the
\* session store.
C16_SessionSweep ==
    \A s \in SessionIds :
        (MapHas(sessions, s) /\ now > sessions[s].expiresAt) ~> ~MapHas(sessions, s)

\* C17: nonce sweep -- a run of cleanExpiredNonces at time t leaves in the
\* nonce store exactly the entries it held whose age t - createdAt is at
\* most NONCE_EXPIRY, each unchanged; nothing is left for a second sweep at
\* the same t to remove; when no entry is older the store is unchanged;
\* and the session store is never modified.
C17_NonceSweep ==
    [][cleanExpiredNonces =>
          /\ DOMAIN nonces' =
                {n \in DOMAIN nonces : now - nonces[n].createdAt <= NONCE_EXPIRY}
          /\ \A n \in DOMAIN nonces' : nonces'[n] = nonces[n]
          /\ \A n \in DOMAIN nonces' : now' - nonces'[n].createdAt <= NONCE_EXPIRY
          /\ ((\A n \in DOMAIN nonces : now - nonces[n].createdAt <= NONCE_EXPIRY)
                 => nonces' = nonces)
          /\ sessions' = sessions]_vars

\* C17 witness: before any verify request, the first nonce is gone from
\* the store (only the sweep can have removed it) and a younger one is
\* still there.
C17_Witness ==
    /\ started = 0
    /\ nextNonce > 2
    /\ ~MapHas(nonces, 1)
    /\ MapHas(nonces, 2)

\* C18: requestChallenge -- POST /auth/nonce with a missing or malformed
\* address answers InvalidIdentity and changes neither store; with a
\* well-formed address it adds exactly one nonce, not stored before, bound
\* to that account and stamped with the current time, changes nothing
\* else, and returns that nonce and a message that contains it.
C18_RequestChallenge ==
    [][\A a \in {resp'.address} :
          (resp'.op = "nonce" /\ RequestNonce(a)) =>
              IF a \in ValidAddresses
              THEN /\ resp'.status = 200
                   /\ \E n \in NonceIds \ DOMAIN nonces :
                         /\ DOMAIN nonces' = DOMAIN nonces \cup {n}
                         /\ SameIdentity(nonces'[n].address, a)
                         /\ nonces'[n].createdAt = now
                         /\ resp'.key = n
                         /\ resp'.message.nonce = n
                   /\ \A m \in DOMAIN nonces : nonces'[m] = nonces[m]
                   /\ sessions' = sessions
              ELSE /\ resp'.status = 400 /\ resp'.error = InvalidIdentity
                   /\ nonces' = nonces
                   /\ sessions' = sessions]_vars

\* C18 witness: a request with a malformed address has been answered
\* InvalidIdentity while a nonce was in the store.
C18_Witness ==
    /\ resp.op = "nonce" /\ resp.error = InvalidIdentity
    /\ resp.address = "0xZZ"
    /\ DOMAIN nonces # {}

\* A message that lacks the address match or the nonce match.
LacksField(message) ==
    ~message.empty /\ (message.address = None \/ message.nonce = NoNonce)

\* C19: malformed message -- a POST /auth/verify whose body has both
\* fields but whose message gives no address match or no nonce match is
\* answered MalformedMessage; it does not reach the call of
\* verifySignature (no such request is ever waiting on the oracle) and
\* changes neither the nonce store nor the session store.  The step of a
\* request that is answered before the await is the one that counts the
\* request and leaves `pending` as it was.
C19_Malformed ==
    [][/\ \A r \in BagToSet(pending') : ~LacksField(r.message)
       /\ (/\ started' = started + 1 /\ pending' = pending
           /\ resp'.signature.kind # "empty"
           /\ LacksField(resp'.message)) =>
              /\ resp'.status = 400 /\ resp'.error = MalformedMessage
              /\ ~resp'.consulted
              /\ nonces' = nonces
              /\ sessions' = sessions]_vars

\* C19 witness: a message that names a stored nonce but has no address
\* has been answered MalformedMessage.
C19_Witness ==
    /\ resp.op = "verify" /\ resp.error = MalformedMessage
    /\ resp.message.address = None
    /\ MapHas(nonces, resp.message.nonce)

\* A step in which a POST /auth/verify is answered with an error: the
\* request is counted and answered before the await (`pending` is as it
\* was), or a waiting request leaves `pending` with an invalid signature.
FailedVerify ==
    /\ resp'.op = "verify"
    /\ resp'.status # 200
    /\ \/ started' = started + 1 /\ pending' = pending
       \/ started' = started /\ pending' # pending

\* C20: unrelated nonces are untouched -- a failed POST /auth/verify
\* against nonce n leaves every other stored nonce m in the store with its
\* address and createdAt, so that the checks a later request presenting m
\* must pass give the same result as before.
C20_OtherNoncesUntouched ==
    [][FailedVerify =>
          \A m \in DOMAIN nonces \ {resp'.key} :
              /\ MapHas(nonces', m)
              /\ nonces'[m] = nonces[m]
              /\ \A a \in ValidAddresses :
                    NonceCheck(nonces', m, a, now') = NonceCheck(nonces, m, a, now)]_vars

\* C20 witness: a verify request presenting an expired nonce has been
\* rejected while another nonce was, and still is, in the store.
C20_Witness ==
    /\ resp.op = "verify" /\ resp.error = NonceExpired
    /\ \E m \in DOMAIN nonces : m # resp.key /\ NonceCheck(nonces, m, "0xAa", now) = Ok

\* C21: sessions of one identity coexist -- a POST /auth/verify that
\* creates a session adds exactly one record under an id no stored session
\* has and leaves every stored session, those of the same address
\* included, as it was; and a logout of one session leaves every other
\* stored session as it was, so the sessions that were valid stay valid.
C21_SessionsCoexist ==
    [][/\ nextSid' = nextSid + 1 =>
             /\ resp'.sessionId \notin DOMAIN sessions
             /\ DOMAIN sessions' = DOMAIN sessions \cup {resp'.sessionId}
             /\ \A s \in DOMAIN sessions :
                   /\ sessions'[s] = sessions[s]
                   /\ SessionExpiredAt(sessions'[s], now') = SessionExpiredAt(sessions[s], now)
       /\ (resp'.op = "logout" /\ Logout(resp'.key)) =>
             \A s \in DOMAIN sessions \ {resp'.key} :
                 /\ MapHas(sessions', s)
                 /\ sessions'[s] = sessions[s]]_vars

\* C21 witness: the last response created a session for an address that
\* has another stored session.
C21_Witness ==
    /\ resp.op = "verify" /\ resp.status = 200
    /\ MapHas(sessions, resp.sessionId)
    /\ \E o \in DOMAIN sessions :
          /\ o # resp.sessionId
          /\ sessions[o].address = sessions[resp.sessionId].address

\* C26: session identity -- in every reachable state the address of each
\* stored session is the lower-case form of an address for which
\* POST /auth/nonce issued a nonce, and the POST /auth/verify that creates
\* a session stores the address that line 145 found bound to the
\* presented nonce, which is the lower-case form of the address that nonce
\* was issued for.
C26_SessionIdentity ==
    /\ \A s \in DOMAIN sessions :
          \E n \in DOMAIN issuedMsg :
              sessions[s].address = ToLowerCase(issuedMsg[n].address)
    /\ (resp.op = "verify" /\ resp.status = 200) =>
          /\ resp.found
          /\ resp.address = resp.bound
          /\ resp.bound = ToLowerCase(issuedMsg[resp.key].address)
          /\ MapHas(sessions, resp.sessionId) =>
                sessions[resp.sessionId].address = resp.bound

\* C26 witness: a session was created from a message that spells the
\* address in lower case, for a nonce issued to the mixed-case spelling,
\* and holds the lower-case form.
C26_Witness ==
    /\ resp.op = "verify" /\ resp.status = 200
    /\ resp.message.address = "0xaa"
    /\ issuedMsg[resp.key].address = "0xAa"
    /\ MapHas(sessions, resp.sessionId)
    /\ sessions[resp.sessionId].address = "0xaa"

\* C27: the session store changes in three ways only -- a step that
\* changes the Map sessions is a POST /auth/verify answered 200 that adds
\* exactly one record, a logout that removes the id it names and nothing
\* else, or a lookup (GET /auth/session, requireAuth) that removes the id
\* it names, which was stored past its expiresAt, and nothing else; a
\* lookup of an absent id, POST /auth/nonce, the nonce sweep and every
\* POST /auth/verify answered with an error leave the store as it was.
C27_SessionStoreChanges ==
    [][/\ sessions' # sessions =>
             \/ /\ resp'.op = "verify" /\ resp'.status = 200
                /\ resp'.sessionId \notin DOMAIN sessions
                /\ DOMAIN sessions' = DOMAIN sessions \cup {resp'.sessionId}
                /\ \A s \in DOMAIN sessions : sessions'[s] = sessions[s]
             \/ /\ resp'.op = "logout"
                /\ sessions' = MapDelete(sessions, resp'.key)
             \/ /\ resp'.op \in Lookups
                /\ resp'.stored /\ resp'.late
                /\ sessions' = MapDelete(sessions, resp'.key)
       /\ (resp'.op \in Lookups /\ ~resp'.stored) => sessions' = sessions
       /\ resp'.op = "nonce" => sessions' = sessions
       /\ (resp'.op = "verify" /\ resp'.status # 200) => sessions' = sessions
       /\ resp' = resp => sessions' = sessions]_vars

\* C27 witness: a lookup has removed a session past its expiresAt while
\* another session stays stored.
C27_Witness ==
    /\ resp.op \in Lookups /\ resp.error = SessionExpired
    /\ resp.stored /\ resp.late
    /\ ~MapHas(sessions, resp.key)
    /\ sessions # EmptyMap

\* C28: session invalidity is permanent -- once a lookup (GET /auth/session
\* or requireAuth) of a session id has been rejected, no later lookup of
\* that id succeeds, whatever requests come in between: in every reachable
\* state a lookup that has just succeeded names an id that no lookup has
\* rejected before, and a rejected id is not in the store.
C28_InvalidityPermanent ==
    /\ (resp.op \in Lookups /\ resp.status = 200) =>
          resp.key # NoSid /\ resp.key \notin rejected
    /\ \A s \in rejected : ~MapHas(sessions, s)

\* C28 witness: a lookup of an id has been rejected, the id having been
\* rejected and removed before, while a session created later is stored.
C28_Witness ==
    /\ resp.op \in Lookups /\ resp.status = 401
    /\ resp.key \in rejected /\ ~resp.stored
    /\ \E o \in DOMAIN sessions : o > resp.key

\* C23: every error is recoverable by starting again at POST /auth/nonce
\* -- in every state, whatever was answered before: (a) a POST /auth/nonce
\* with a valid address is answered 200 and stores a nonce that was never
\* issued, created now, for that address; (b) a stored nonce leaves the
\* store only when it is older than NONCE_EXPIRY or when a verify answered
\* 200 consumed it; (c) a POST /auth/verify that presents a stored nonce
\* within NONCE_EXPIRY, with the address the nonce is bound to and a
\* signature, is not answered with an error before the oracle is asked;
\* (d) a request whose signature the oracle accepts is answered 200 and
\* its session is stored; and (e) a request waiting on the oracle can
\* always be completed.
C23_Recoverable ==
    /\ [][/\ (resp'.op = "nonce" /\ resp'.address \in ValidAddresses) =>
                resp'.status = 200
          /\ nextNonce' = nextNonce + 1 =>
                /\ resp'.key = nextNonce
                /\ ~MapHas(nonces, nextNonce) /\ ~MapHas(issuedMsg, nextNonce)
                /\ MapHas(nonces', nextNonce)
                /\ nonces'[nextNonce] = [address |-> ToLowerCase(resp'.address),
                                         createdAt |-> now']
          /\ \A n \in DOMAIN nonces \ DOMAIN nonces' :
                \/ now - nonces[n].createdAt > NONCE_EXPIRY
                \/ resp'.op = "verify" /\ resp'.status = 200 /\ resp'.key = n
          /\ (started' = started + 1 /\ pending' = pending) =>
                ~(/\ ~resp'.message.empty /\ resp'.signature.kind # "empty"
                  /\ resp'.found /\ resp'.age <= NONCE_EXPIRY
                  /\ resp'.bound = ToLowerCase(resp'.message.address))
          /\ (started' = started /\ pending' # pending /\ resp'.oracle = "accepted") =>
                /\ resp'.status = 200
                /\ MapHas(sessions', resp'.sessionId)
                /\ sessions'[resp'.sessionId].address = ToLowerCase(resp'.message.address)]_vars
    /\ [](\A r \in BagToSet(pending) : ENABLED VerifyFinish(r, "ethers"))

\* C23 witness: two verify requests have been answered, one with an error
\* and, last, one with a session, made from a nonce with a signature the
\* oracle accepted.
C23_Witness ==
    /\ resp.op = "verify" /\ resp.status = 200
    /\ resp.oracle = "accepted"
    /\ started = 2 /\ pending = EmptyBag
    /\ nextSid = 2
    /\ MapHas(sessions, resp.sessionId)

\* The nonces whose age the clock of the model can take past NONCE_EXPIRY:
\* those created no later than the instant NONCE_EXPIRY + 1.
Outlived(n) == MapHas(nonces, n) /\ nonces[n].createdAt <= NONCE_EXPIRY + 1

\* C24: every issued nonce is eventually removed -- while the clock keeps
\* advancing and the periodic sweep keeps being run, a nonce stored by
\* POST /auth/nonce is eventually out of the store, whether or not a
\* POST /auth/verify ever presents it: there comes a time from which on
\* none of these nonces is stored, so that each of them, once stored, is
\* removed later (an id is never stored twice).
C24_NonceEventuallyRemoved ==
    <>[](\A n \in NonceIds : ~Outlived(n))

\* C24 witness: a nonce was issued, no POST /auth/verify was ever
\* received, the clock is past the nonce's expiry and the store is empty.
C24_Witness ==
    /\ started = 0 /\ nextNonce = 2
    /\ issuedMsg # EmptyMap
    /\ now > NONCE_EXPIRY
    /\ nonces = EmptyMap

TypeOK ==
    /\ DOMAIN nonces \subseteq NonceIds
    /\ DOMAIN sessions \subseteq SessionIds
    /\ now \in Nat
    /\ started \in 0..MaxRequests
    /\ rejected \subseteq SessionIds
    /\ siwe.phase \in {"none", "input", "built", "parsed"}

====
